---- MODULE Spec2Model ----
(***************************************************************************)
(* Model of the validation engine of simple_etl_pipeline                   *)
(* (src/utils/validation.py, class DataValidator).                         *)
(*                                                                         *)
(* A dataset (df_dict) maps table names to DataFrames.  A DataFrame is     *)
(* modelled as the sequence of its rows, in index order; a row is a record *)
(* of its cells.  Boolean-mask selection df[mask] followed by              *)
(* reset_index(drop=True) is SelectSeq.  Only warning and error log        *)
(* records are kept (info/debug calls change nothing the claims observe).  *)
(*                                                                         *)
(* The module also models the data generator: inject_anomaly               *)
(* (src/utils/generation.py), the unique product-name loop and the run of  *)
(* generate_sqlite (src/src/utils.py, src/data/data_generator.py).  Each   *)
(* component has its own variables, initial predicate and specification;   *)
(* the variables of the other components stay at their idle values.        *)
(***************************************************************************)
EXTENDS Integers, Sequences, FiniteSets, TLC

VARIABLES
    fk_cfg,     \* self.fk_cfg: the foreign-key declarations, in dict order
    ck_cfg,     \* self.ck_cfg: the composite-key declarations, in dict order
    const_cfg,  \* self.const_cfg: the constraint rules, per table, in list order
    df_dict,    \* the mapping object the caller passes (and gets back)
    arg,        \* the content of df_dict when the last call was entered
    call,       \* the method called last ("none" before the first call)
    outcome,    \* "returned" or "raised" for the last call
    log,        \* the warning/error records the last call emitted, in order
    ran,        \* the phases run_all_validations entered, in order
    anomaly_cfg,  \* DataGenerator.anomaly_cfg: the anomaly configuration object
    configured,   \* the anomaly configuration as the generator was constructed with
    injected,     \* the last inject_anomaly call: its arguments, draws and result
    calls,        \* the number of inject_anomaly calls made
    word_lists,     \* config["word_lists"]: the lists colors, products, models
    num_rows,       \* the argument of _get_product_names
    product_names,  \* the set product_names built by the sampling loop
    names_pc,       \* "idle", "sampling" (at the while test), "returned" or "raised"
    names_error,    \* the exception type that ended the call ("" when none)
    last_draw,      \* the positions random.choice picked in the last iteration
    sqlite_tables,  \* config["sqlite_tables"]: the declared tables, in order
    module,         \* the file whose generate_sqlite runs
    sql_pc,         \* the position of the run inside generate_sqlite
    sql_idx,        \* the index of the table the current loop is at
    conn,           \* the connection: "none", "open" or "closed"
    connects,       \* the number of sqlite3.connect calls that succeeded
    created,        \* the tables that exist in the database
    pending,        \* per table, the rows inserted in the open transaction
    committed,      \* per table, the rows committed to the database
    inserted,       \* per table, the rows executemany inserted during the run
    rejected,       \* the tables whose DDL or insert the storage engine rejected
    sql_error,      \* the exception in flight or raised ("" when none)
    failed_in,      \* the step an exception arose in ("" when none), sql_idx its table
    key_table,      \* table_name: "transactions" or "user_actions"
    user_ids,       \* the list user_ids read by SELECT id FROM users
    rows_wanted,    \* num_rows of the table being generated
    field_words,    \* the length of the word list the row's text field is drawn from
    data,           \* the list data: the rows appended so far
    unique,         \* the set unique of (uid, ts) pairs
    now,            \* the second datetime.now() reads
    key_pc,         \* "idle", "sampling" (at the for test), "returned" or "raised"
    key_error,      \* the exception type that ended the generation ("" when none)
    last_pair       \* the (uid, ts) the last pass of the while loop drew

ValidatorVars == <<fk_cfg, ck_cfg, const_cfg, df_dict, arg, call, outcome, log, ran>>
AnomalyVars == <<anomaly_cfg, configured, injected, calls>>
NamesVars == <<word_lists, num_rows, product_names, names_pc, names_error, last_draw>>
SqliteVars ==
    <<sqlite_tables, module, sql_pc, sql_idx, conn, connects, created, pending,
      committed, inserted, rejected, sql_error, failed_in>>
KeyVars ==
    <<key_table, user_ids, rows_wanted, field_words, data, unique, now, key_pc,
      key_error, last_pair>>
vars == <<ValidatorVars, AnomalyVars, NamesVars, SqliteVars, KeyVars>>

----------------------------------------------------------------------------
(* Bounds of the model *)

MaxRows == 3      \* rows in a dataset, all tables together
MaxDecls == 2     \* declarations (FK + composite key + rule) in one configuration
Resolution == 4   \* random.random() draws are the multiples of 1/Resolution in [0, 1)
MaxCalls == 3     \* inject_anomaly calls on one generator
MaxWords == 2     \* words in one component list of the product names
MaxTables == 3    \* tables declared in config["sqlite_tables"]
MaxNumRows == 1   \* num_rows of a declared table
MaxPool == 2      \* identifiers in user_ids
MaxDays == 1      \* the largest number of days random.randint draws (365 in the code)
MaxClock == 1     \* seconds the clock advances during one generation
MaxWanted == 3    \* num_rows of a transactions or user_actions table

----------------------------------------------------------------------------
(* Data *)

\* The values of the key columns id and ref.
Ids == {1, 2}

\* A string cell: a Python str (a sequence of characters) or NaN/None.
Str(s) == [isna |-> FALSE, s |-> s]
NaN == [isna |-> TRUE, s |-> <<>>]
Tags == {NaN, Str(<<"b", "a">>)}

\* The tables of a dataset and the columns each one has.
Tables == {"users", "orders", "user_actions"}
Columns(t) ==
    CASE t = "users" -> {"id"}
      [] t = "orders" -> {"id", "ref"}
      [] t = "user_actions" -> {"ref", "tag"}
      [] OTHER -> {}

\* Columns of object dtype holding strings: the .str accessor works on these only.
IsStrCol(c) == c = "tag"

\* dict iteration order of df_dict (the code never adds or removes a key).
TableOrder == <<"users", "orders", "user_actions">>

RECURSIVE SeqsUpTo(_, _)
SeqsUpTo(S, n) ==
    IF n = 0 THEN {<<>>}
    ELSE LET shorter == SeqsUpTo(S, n - 1)
         IN shorter \cup {Append(s, x) : s \in {q \in shorter : Len(q) = n - 1}, x \in S}

\* Surrogate keys are assigned in increasing order by the storage engine.
Ascending(rows) == \A i \in 1..(Len(rows) - 1) : rows[i].id < rows[i + 1].id

RowsOf(t) ==
    CASE t = "users" -> [id : Ids]
      [] t = "orders" -> [id : Ids, ref : Ids]
      [] t = "user_actions" -> [ref : Ids, tag : Tags]

\* The frames a table may hold when the validator is called.
FramesOf(t) ==
    IF "id" \in Columns(t)
    THEN {f \in SeqsUpTo(RowsOf(t), MaxRows) : Ascending(f)}
    ELSE SeqsUpTo(RowsOf(t), MaxRows)

\* One log record.
Warn(event, table, what) == [level |-> "warning", event |-> event, table |-> table, what |-> what]
Err(event) == [level |-> "error", event |-> event, table |-> "", what |-> <<>>]

\* The result of a method body: the mapping's content when it ends, whether an
\* exception left it, and what it logged.
Result(d, raised, l) == [d |-> d, raised |-> raised, log |-> l]

----------------------------------------------------------------------------
(* validate_foreign_keys *)

\* A declaration fk_cfg[table][fk_col] = parent, the value being the string the
\* configuration gives.
FkDecl(table, fk_col, parent) == [table |-> table, fk_col |-> fk_col, parent |-> parent]

\* set(df_dict[parent_table]["id"])
parent_ids(d, parent) == {d[parent][i].id : i \in 1..Len(d[parent])}

\* Lines 105-122 without the guard of lines 105-110: df_dict[...] of an absent
\* table is a KeyError.
FkStepUnguarded(d, decl) ==
    IF decl.table \notin DOMAIN d \/ decl.parent \notin DOMAIN d
    THEN Result(d, TRUE, <<>>)
    ELSE IF "id" \notin Columns(decl.parent) \/ decl.fk_col \notin Columns(decl.table)
    THEN Result(d, TRUE, <<>>)
    ELSE LET ids == parent_ids(d, decl.parent)
             Keep(r) == r[decl.fk_col] \in ids
         IN Result([d EXCEPT ![decl.table] = SelectSeq(d[decl.table], Keep)], FALSE, <<>>)

\* One iteration of the inner loop (lines 105-122).
FkStep(d, decl) ==
    IF decl.table \notin DOMAIN d \/ decl.parent \notin DOMAIN d
    THEN Result(d, FALSE, <<Warn("fk_skipped", decl.table, <<decl.fk_col, decl.parent>>)>>)
    ELSE IF "id" \notin Columns(decl.parent)
    THEN Result(d, TRUE, <<>>)             \* KeyError: 'id'
    ELSE IF decl.fk_col \notin Columns(decl.table)
    THEN Result(d, TRUE, <<>>)             \* KeyError: fk_col
    ELSE LET ids == parent_ids(d, decl.parent)
             Keep(r) == r[decl.fk_col] \in ids
         IN Result([d EXCEPT ![decl.table] = SelectSeq(d[decl.table], Keep)], FALSE, <<>>)

\* The loops taking the declarations in reverse order.
RECURSIVE FkLoopReversed(_, _, _, _)
FkLoopReversed(decls, i, d, l) ==
    IF i > Len(decls) THEN Result(d, FALSE, l)
    ELSE LET r == FkStep(d, decls[Len(decls) + 1 - i])
         IN IF r.raised THEN Result(r.d, TRUE, l \o r.log)
            ELSE FkLoopReversed(decls, i + 1, r.d, l \o r.log)

\* The loops of lines 103-104 over the declarations decls[i..], from content d.
RECURSIVE FkLoop(_, _, _, _)
FkLoop(decls, i, d, l) ==
    IF i > Len(decls) THEN Result(d, FALSE, l)
    ELSE LET r == FkStep(d, decls[i])
         IN IF r.raised THEN Result(r.d, TRUE, l \o r.log)
            ELSE FkLoop(decls, i + 1, r.d, l \o r.log)

validate_foreign_keys(d) == FkLoop(fk_cfg, 1, d, <<>>)

----------------------------------------------------------------------------
(* validate_composite_keys *)

\* One key list of ck_cfg[table]: keys is the list of column names.
CkDecl(table, keys) == [table |-> table, keys |-> keys]

SameKey(r1, r2, keys) == \A k \in 1..Len(keys) : r1[keys[k]] = r2[keys[k]]

\* df.duplicated(subset=keys): row j is marked when an earlier row has the same
\* key values (keep='first'; NaN equals NaN).
duplicated(df, keys) == [j \in 1..Len(df) |-> \E i \in 1..(j - 1) : SameKey(df[i], df[j], keys)]

\* Series.any()
any(mask) == \E j \in DOMAIN mask : mask[j]

\* Number of rows a mask marks.
CountTrue(mask) == Cardinality({j \in DOMAIN mask : mask[j]})

\* Lines 154-159 warning once for every duplicated row.
CkStepPerRow(d, decl) ==
    IF decl.table \notin DOMAIN d
    THEN Result(d, FALSE, <<>>)
    ELSE IF \E k \in 1..Len(decl.keys) : decl.keys[k] \notin Columns(decl.table)
    THEN Result(d, TRUE, <<>>)
    ELSE LET n == CountTrue(duplicated(d[decl.table], decl.keys))
         IN Result(d, FALSE, [j \in 1..n |-> Warn("duplicates", decl.table, decl.keys)])

\* Lines 154-159 dropping the duplicated rows it reports.
CkStepDropDuplicates(d, decl) ==
    IF decl.table \notin DOMAIN d
    THEN Result(d, FALSE, <<>>)
    ELSE IF \E k \in 1..Len(decl.keys) : decl.keys[k] \notin Columns(decl.table)
    THEN Result(d, TRUE, <<>>)
    ELSE LET df == d[decl.table]
             mask == duplicated(df, decl.keys)
             first == [d EXCEPT ![decl.table] =
                          [j \in 1..(Len(df) - CountTrue(mask)) |->
                              df[CHOOSE m \in 1..Len(df) :
                                    /\ ~mask[m]
                                    /\ Cardinality({x \in 1..m : ~mask[x]}) = j]]]
         IN IF any(mask)
            THEN Result(first, FALSE, <<Warn("duplicates", decl.table, decl.keys)>>)
            ELSE Result(d, FALSE, <<>>)

\* One key list of one table (lines 154-159).
CkStep(d, decl) ==
    IF decl.table \notin DOMAIN d
    THEN Result(d, FALSE, <<>>)            \* df is None: continue
    ELSE IF \E k \in 1..Len(decl.keys) : decl.keys[k] \notin Columns(decl.table)
    THEN Result(d, TRUE, <<>>)             \* KeyError in duplicated
    ELSE IF any(duplicated(d[decl.table], decl.keys))
    THEN Result(d, FALSE, <<Warn("duplicates", decl.table, decl.keys)>>)
    ELSE Result(d, FALSE, <<>>)

RECURSIVE CkLoop(_, _, _, _)
CkLoop(decls, i, d, l) ==
    IF i > Len(decls) THEN Result(d, FALSE, l)
    ELSE LET r == CkStep(d, decls[i])
         IN IF r.raised THEN Result(r.d, TRUE, l \o r.log)
            ELSE CkLoop(decls, i + 1, r.d, l \o r.log)

validate_composite_keys(d) == CkLoop(ck_cfg, 1, d, <<>>)

----------------------------------------------------------------------------
(* _filter_df and validate_constraints *)

\* A condition string, by what the regular expressions of _filter_df and the
\* evaluators make of it:
\*   shape  which pattern re.fullmatch accepts ("query": none of them)
\*   col    the column named;  pat, na: the pattern literal and the na flag
\*   values the list literal of isin;  op, num: the comparison of .str.len()
\*   ok     the literal parses (ast.literal_eval) / query can evaluate the text
Cond(shape, col, pat, na, values, op, num, ok) ==
    [shape |-> shape, col |-> col, pat |-> pat, na |-> na, values |-> values,
     op |-> op, num |-> num, ok |-> ok]

CondContains(col, pat, na, ok) == Cond("contains", col, pat, na, {}, "", 0, ok)
CondMatch(col, pat, na, ok) == Cond("match", col, pat, na, {}, "", 0, ok)
CondIsin(col, values, ok) == Cond("isin", col, <<>>, FALSE, values, "", 0, ok)
CondLen(col, op, num) == Cond("len", col, <<>>, FALSE, {}, op, num, TRUE)
CondQuery(col, op, num, ok) == Cond("query", col, <<>>, FALSE, {}, op, num, ok)

\* The comparison operators Python evaluates; any other text matched by
\* [><=!]+ is a SyntaxError (or a TypeError) in eval.
CompareOps == {">", "<", ">=", "<=", "==", "!="}
Compare(a, op, b) ==
    CASE op = ">" -> a > b
      [] op = "<" -> a < b
      [] op = ">=" -> a >= b
      [] op = "<=" -> a =< b
      [] op = "==" -> a = b
      [] op = "!=" -> a # b

\* re.search(pat, s) for a pattern without metacharacters: pat occurs in s.
Searches(pat, s) ==
    \E i \in 1..(Len(s) - Len(pat) + 1) : SubSeq(s, i, i + Len(pat) - 1) = pat
\* re.match(pat, s): pat occurs at the start of s.
Matches(pat, s) == Len(pat) =< Len(s) /\ SubSeq(s, 1, Len(pat)) = pat

\* What _filter_df gives: the frame, whether an exception left it, its warnings.
Filtered(df, raised, l) == [df |-> df, raised |-> raised, log |-> l]

\* df[col]: a KeyError when the frame has no such column.
HasCol(table, condition) == condition.col \in Columns(table)

\* Lines 52-56: df[df[col].str.contains(pat, na=na)].
FilterContains(df, table, condition) ==
    IF ~condition.ok \/ ~HasCol(table, condition) \/ ~IsStrCol(condition.col)
    THEN Filtered(df, TRUE, <<>>)
    ELSE LET Keep(r) == IF r[condition.col].isna THEN condition.na
                        ELSE Searches(condition.pat, r[condition.col].s)
         IN Filtered(SelectSeq(df, Keep), FALSE, <<>>)

\* Lines 62-66: df[df[col].str.match(pat, na=na)].
FilterMatch(df, table, condition) ==
    IF ~condition.ok \/ ~HasCol(table, condition) \/ ~IsStrCol(condition.col)
    THEN Filtered(df, TRUE, <<>>)
    ELSE LET Keep(r) == IF r[condition.col].isna THEN condition.na
                        ELSE Matches(condition.pat, r[condition.col].s)
         IN Filtered(SelectSeq(df, Keep), FALSE, <<>>)

\* Lines 69-72: df[df[col].isin(values)].
FilterIsin(df, table, condition) ==
    IF ~condition.ok \/ ~HasCol(table, condition)
    THEN Filtered(df, TRUE, <<>>)
    ELSE LET Keep(r) == r[condition.col] \in condition.values
         IN Filtered(SelectSeq(df, Keep), FALSE, <<>>)

\* Lines 75-77: df[eval("df['col'].str.len() op num")]; the length of NaN is
\* NaN, which compares unequal to every number.
FilterLen(df, table, condition) ==
    IF ~HasCol(table, condition) \/ ~IsStrCol(condition.col) \/ condition.op \notin CompareOps
    THEN Filtered(df, TRUE, <<>>)
    ELSE LET Keep(r) == IF r[condition.col].isna THEN condition.op = "!="
                        ELSE Compare(Len(r[condition.col].s), condition.op, condition.num)
         IN Filtered(SelectSeq(df, Keep), FALSE, <<>>)

\* Lines 80-84 with the fallback failing closed: the frame is emptied.
FilterQueryFailClosed(df, table, condition) ==
    IF ~condition.ok \/ ~HasCol(table, condition)
    THEN Filtered(<<>>, FALSE, <<Warn("unparsed", table, <<condition.col, condition.op>>)>>)
    ELSE LET Keep(r) == Compare(r[condition.col], condition.op, condition.num)
         IN Filtered(SelectSeq(df, Keep), FALSE, <<>>)

\* Lines 80-84: df.query(condition), any exception caught and logged.
FilterQuery(df, table, condition) ==
    IF ~condition.ok \/ ~HasCol(table, condition)
    THEN Filtered(df, FALSE, <<Warn("unparsed", table, <<condition.col, condition.op>>)>>)
    ELSE LET Keep(r) == Compare(r[condition.col], condition.op, condition.num)
         IN Filtered(SelectSeq(df, Keep), FALSE, <<>>)

filter_df(df, table, condition) ==
    CASE condition.shape = "contains" -> FilterContains(df, table, condition)
      [] condition.shape = "match" -> FilterMatch(df, table, condition)
      [] condition.shape = "isin" -> FilterIsin(df, table, condition)
      [] condition.shape = "len" -> FilterLen(df, table, condition)
      [] OTHER -> FilterQuery(df, table, condition)

\* The rule loop without chaining: only the last rule of the table filters,
\* and it filters the table's input rows.
RuleLoopUnchained(rules, i, df, table, l) ==
    IF i > Len(rules) THEN Filtered(df, FALSE, l)
    ELSE LET f == filter_df(df, table, rules[Len(rules)])
         IN Filtered(f.df, f.raised, l \o f.log)

\* The inner loop of validate_constraints (lines 129-134) over rules[i..].
RECURSIVE RuleLoop(_, _, _, _, _)
RuleLoop(rules, i, df, table, l) ==
    IF i > Len(rules) THEN Filtered(df, FALSE, l)
    ELSE LET f == filter_df(df, table, rules[i])
         IN IF f.raised THEN Filtered(df, TRUE, l \o f.log)
            ELSE RuleLoop(rules, i + 1, f.df, table, l \o f.log)

\* The outer loop (lines 127-135) over the tables order[i..] of df_dict;
\* cfg[table] is const_cfg.get(table, []).
RECURSIVE ConstraintLoop(_, _, _, _, _)
ConstraintLoop(cfg, order, i, d, l) ==
    IF i > Len(order) THEN Result(d, FALSE, l)
    ELSE IF order[i] \notin DOMAIN d THEN ConstraintLoop(cfg, order, i + 1, d, l)
    ELSE LET table == order[i]
             f == RuleLoop(cfg[table], 1, d[table], table, <<>>)
         IN IF f.raised THEN Result(d, TRUE, l \o f.log)
            ELSE ConstraintLoop(cfg, order, i + 1, [d EXCEPT ![table] = f.df], l \o f.log)

\* validate_constraints that also deletes the tables its rules emptied.
ConstraintsDropEmptied(d) ==
    LET r == ConstraintLoop(const_cfg, TableOrder, 1, d, <<>>)
        kept == {t \in DOMAIN r.d : r.d[t] # <<>> \/ d[t] = <<>>}
    IN Result([t \in kept |-> r.d[t]], r.raised, r.log)

validate_constraints(d) == ConstraintLoop(const_cfg, TableOrder, 1, d, <<>>)

----------------------------------------------------------------------------
(* run_all_validations *)

\* What run_all_validations leaves: the mapping's content, whether it raised,
\* what was logged, and the phases it entered.
RunResult(d, raised, l, phases) == [d |-> d, raised |-> raised, log |-> l, ran |-> phases]

\* Lines 200-202 without the raise: the error is logged and the call returns.
Swallow(r, phases) == RunResult(r.d, FALSE, Append(r.log, Err("validation_failed")), phases)

\* except Exception as e: logger.error(...); raise   (lines 200-202)
Reraise(r, phases) == RunResult(r.d, TRUE, Append(r.log, Err("validation_failed")), phases)

\* The phases in another order: the constraint rules are applied before the
\* composite-key check.
RunAllConstraintsFirst(d) ==
    LET r1 == validate_foreign_keys(d)
    IN IF r1.raised THEN Reraise(r1, <<"foreign_keys">>)
       ELSE LET r2 == validate_constraints(r1.d)
                l2 == r1.log \o r2.log
            IN IF r2.raised
               THEN Reraise(Result(r2.d, TRUE, l2), <<"foreign_keys", "constraints">>)
               ELSE LET r3 == validate_composite_keys(r2.d)
                        l3 == l2 \o r3.log
                        all == <<"foreign_keys", "constraints", "composite_keys">>
                    IN IF r3.raised THEN Reraise(Result(r3.d, TRUE, l3), all)
                       ELSE RunResult(r3.d, FALSE, l3, all)

run_all_validations(d) ==
    LET r1 == validate_foreign_keys(d)
    IN IF r1.raised THEN Reraise(r1, <<"foreign_keys">>)
       ELSE LET r2 == validate_composite_keys(r1.d)
                l2 == r1.log \o r2.log
            IN IF r2.raised
               THEN Reraise(Result(r2.d, TRUE, l2), <<"foreign_keys", "composite_keys">>)
               ELSE LET r3 == validate_constraints(r2.d)
                        l3 == l2 \o r3.log
                        all == <<"foreign_keys", "composite_keys", "constraints">>
                    IN IF r3.raised THEN Reraise(Result(r3.d, TRUE, l3), all)
                       ELSE RunResult(r3.d, FALSE, l3, all)

----------------------------------------------------------------------------
(* DataGenerator.inject_anomaly (src/utils/generation.py) *)

\* The Python values that pass through inject_anomaly.
None == [kind |-> "none", n |-> 0, s |-> ""]
Num(n) == [kind |-> "int", n |-> n, s |-> ""]
Text(s) == [kind |-> "str", n |-> 0, s |-> s]

\* A probability, or a draw of random.random(), as the exact fraction num/den.
Frac(num, den) == [num |-> num, den |-> den]
Greater(a, b) == a.num * b.den > b.num * a.den

\* random.random(): a float of [0.0, 1.0), 0.0 included.
RandomDraws == {Frac(k, Resolution) : k \in 0..(Resolution - 1)}

\* random.randint(1, 100): the two ends of the range.
RandInts == {1, 100}

Dtypes == {"INTEGER", "TEXT"}
NoColumn == "<None>"
ColumnNames == {NoColumn, "age", "salary", "email"}
CleanValues == {Num(30), Text("abc")}

\* The anomaly_config mapping: the key "probability" may be missing, and
\* "strategies" maps some of the dtypes to a list (a missing "strategies" key
\* reads as a mapping without dtypes).
AnomalyConfig(has_probability, probability, strategies) ==
    [has_probability |-> has_probability, probability |-> probability,
     strategies |-> strategies]

\* Line 412: self.anomaly_cfg.get("probability", 0.1).
DefaultProbability == Frac(1, 10)
Probability(cfg) ==
    IF cfg.has_probability THEN cfg.probability ELSE DefaultProbability

\* Line 413: the call goes on to corrupt unless random.random() > probability.
Corrupts(cfg, draw) == ~Greater(draw, Probability(cfg))

\* Line 416: .get("strategies", {}).get(dtype, []) is the list object held by
\* the configuration when dtype is a key of it, and a fresh empty list otherwise.
IsConfigured(cfg, dtype) == dtype \in DOMAIN cfg.strategies
Strategies(cfg, dtype) ==
    IF IsConfigured(cfg, dtype) THEN cfg.strategies[dtype] ELSE <<>>

\* Lines 418-419: strategies.append(-random.randint(1, 100)).
Appends(dtype, column_name) ==
    dtype = "INTEGER" /\ column_name \in {"age", "salary"}
Candidates(cfg, dtype, column_name, n) ==
    IF Appends(dtype, column_name) THEN Append(Strategies(cfg, dtype), Num(-n))
    ELSE Strategies(cfg, dtype)

\* The configuration after the call: the append at line 419 changes the list
\* the configuration holds.
AfterInject(cfg, dtype, column_name, draw, n) ==
    IF Corrupts(cfg, draw) /\ IsConfigured(cfg, dtype)
    THEN [cfg EXCEPT !.strategies[dtype] = Candidates(cfg, dtype, column_name, n)]
    ELSE cfg

\* Lines 413-424: the values the call may return, random.choice picking any
\* element of a non-empty list.
Returns(cfg, value, dtype, column_name, nullable, draw, n) ==
    IF ~Corrupts(cfg, draw) THEN {value}
    ELSE LET strategies == Candidates(cfg, dtype, column_name, n)
         IN IF strategies # <<>>
            THEN {strategies[i] : i \in 1..Len(strategies)}
            ELSE {IF nullable THEN None ELSE value}

\* The record of a call.
Injection(value, dtype, column_name, nullable, draw, result, corrupt) ==
    [value |-> value, dtype |-> dtype, column_name |-> column_name,
     nullable |-> nullable, draw |-> draw, result |-> result, corrupt |-> corrupt]
NoInjection == Injection(None, "", NoColumn, FALSE, Frac(0, 1), None, FALSE)

\* No generator is at work.
NoAnomalyConfig == AnomalyConfig(FALSE, DefaultProbability, <<>>)
AnomalyIdle ==
    /\ anomaly_cfg = NoAnomalyConfig
    /\ configured = NoAnomalyConfig
    /\ injected = NoInjection
    /\ calls = 0

----------------------------------------------------------------------------
(* _get_product_names (src/src/utils.py, inside DataGenerator.generate_sqlite) *)

\* A word is the sequence of its space-separated tokens, so that the f-string
\* "{color} {product} {model}" is the concatenation of the three sequences.
Word(tokens) == tokens
ProductName(color, product, model) == color \o product \o model

WordLists(colors, products, models) ==
    [colors |-> colors, products |-> products, models |-> models]

\* The positions random.choice may pick in a list.
Positions(list) == 1..Len(list)
Draw(i, j, k) == <<i, j, k>>
NoDraw == Draw(0, 0, 0)

\* Line 61: the candidate built from the words at the positions drawn.
Candidate(lists, draw) ==
    ProductName(lists.colors[draw[1]], lists.products[draw[2]], lists.models[draw[3]])

\* random.choice of an empty list raises IndexError.
AnyListEmpty(lists) ==
    lists.colors = <<>> \/ lists.products = <<>> \/ lists.models = <<>>

\* No product names are being generated.
NamesIdle ==
    /\ word_lists = WordLists(<<>>, <<>>, <<>>)
    /\ num_rows = 0
    /\ product_names = {}
    /\ names_pc = "idle"
    /\ names_error = ""
    /\ last_draw = NoDraw

----------------------------------------------------------------------------
(* DataGenerator.generate_sqlite (src/src/utils.py, src/data/data_generator.py) *)

\* The two files that define generate_sqlite.  They differ in what follows an
\* exception: src/src/utils.py logs a sqlite3.Error and closes the connection
\* in a finally clause; src/data/data_generator.py logs it, re-raises it and
\* has no finally clause (and no close call).
Utils == "src/src/utils.py"
DataGeneratorFile == "src/data/data_generator.py"
Modules == {Utils, DataGeneratorFile}

\* A declaration of config["sqlite_tables"].
TableDecl(name, rows) == [name |-> name, num_rows |-> rows]

\* The table names: those _generate_data has a case for, and one it has not.
GeneratedTables == {"users", "products", "logs", "orders", "user_actions"}
TableNames == GeneratedTables \cup {"widgets"}

\* The tables whose ids a generator reads with SELECT id FROM <table>.
Pools(name) ==
    CASE name = "orders" -> {"users", "products"}
      [] name = "user_actions" -> {"users"}
      [] OTHER -> {}

NoRows == [t \in TableNames |-> 0]

\* The rows SELECT id FROM table returns on the run's connection: the
\* committed rows and those of the open transaction.
Visible(table) == committed[table] + pending[table]

\* The query of a pool fails (no such table) when the table was never created.
PoolMissing(name) == \E t \in Pools(name) : t \notin created
\* random.choice(ids) of an empty list raises IndexError.
PoolEmpty(name) == \E t \in Pools(name) : Visible(t) = 0

\* len(data) for a declaration: the case "_" returns [], every other case
\* appends one row per requested row.
Generated(decl) == IF decl.name \in GeneratedTables THEN decl.num_rows ELSE 0

\* No generate_sqlite run is at hand.
SqliteIdle ==
    /\ sqlite_tables = <<>>
    /\ module = Utils
    /\ sql_pc = "idle"
    /\ sql_idx = 0
    /\ conn = "none"
    /\ connects = 0
    /\ created = {}
    /\ pending = NoRows
    /\ committed = NoRows
    /\ inserted = NoRows
    /\ rejected = {}
    /\ sql_error = ""
    /\ failed_in = ""

----------------------------------------------------------------------------
(* The (user_id, timestamp) loop of the transactions and user_actions     *)
(* generators (src/src/utils.py, _generate_data inside generate_sqlite)    *)

KeyedTables == {"transactions", "user_actions"}

\* random.randint(0, 365): the number of days the timestamp lies back.
Days == 0 .. MaxDays

\* (datetime.now() - timedelta(days=d)).strftime("%Y-%m-%d %H:%M:%S"): the
\* text names the second read from the clock, moved back by d whole days.
\* Two timestamps are the same text exactly when the seconds they name are
\* the same; the clock advances less than a day during a run, so the pair
\* (second read, days back) identifies the text.
Timestamp(second, d) == <<second, d>>

\* The pair the while loop tests: uid = random.choice(user_ids) picks
\* position i, random.randint picks d.
Pair(i, d) == <<user_ids[i], Timestamp(now, d)>>

\* The tuple data.append receives.  uid and ts enter it unchanged (they do
\* not pass _maybe_dirty); the other fields are drawn independently of the
\* key and are kept as the table's field list.
Row(pair) ==
    [user_id |-> pair[1], timestamp |-> pair[2],
     fields |-> IF key_table = "transactions"
                THEN <<"amount", "description", "status">>
                ELSE <<"action">>]

PairOf(row) == <<row.user_id, row.timestamp>>

NoPair == <<>>

KeyIdle ==
    /\ key_table = "transactions"
    /\ user_ids = <<>>
    /\ rows_wanted = 0
    /\ field_words = 0
    /\ data = <<>>
    /\ unique = {}
    /\ now = 0
    /\ key_pc = "idle"
    /\ key_error = ""
    /\ last_pair = NoPair

----------------------------------------------------------------------------
(* The configurations and datasets the validator is constructed and called with *)

\* Declarations a configuration is drawn from.  "users.id" is the form
\* parent_table.parent_column; users has no column ref; user_actions has no id;
\* orders.ref -> orders is a table that references itself.
FkPool ==
    {FkDecl("orders", "ref", "users"),
     FkDecl("user_actions", "ref", "orders"),
     FkDecl("orders", "ref", "users.id"),
     FkDecl("orders", "id", "users"),
     FkDecl("users", "ref", "orders"),
     FkDecl("orders", "ref", "user_actions"),
     FkDecl("orders", "ref", "orders")}

CkPool ==
    {CkDecl("user_actions", <<"ref", "tag">>),
     CkDecl("user_actions", <<"ref">>),
     CkDecl("orders", <<"ref">>),
     CkDecl("users", <<"ref">>)}

\* A rule of const_cfg[table].
Rule(table, cond) == [table |-> table, cond |-> cond]

RulePool ==
    {Rule("user_actions", CondContains("tag", <<"a">>, FALSE, TRUE)),     \* tag.str.contains('a')
     Rule("user_actions", CondMatch("tag", <<"a">>, TRUE, TRUE)),         \* tag.str.match('a', na=True)
     Rule("user_actions", CondLen("tag", "!=", 2)),                       \* tag.str.len() != 2
     Rule("user_actions", CondLen("ref", ">", 0)),                        \* ref.str.len() > 0
     Rule("user_actions", CondLen("tag", "=>", 1)),                       \* tag.str.len() => 1
     Rule("user_actions", CondContains("tag", <<"a">>, FALSE, FALSE)),    \* tag.str.contains('a")
     Rule("user_actions", CondQuery("tag", "length >", 0, FALSE)),        \* tag.length > 0
     Rule("orders", CondIsin("ref", {1}, TRUE)),                          \* ref.isin([1])
     Rule("orders", CondQuery("ref", ">", 1, TRUE)),                      \* ref > 1
     Rule("orders", CondIsin("nocol", {1}, TRUE)),                        \* nocol.isin([1])
     Rule("users", CondIsin("id", {1}, TRUE)),                            \* id.isin([1])
     Rule("users", CondQuery("id", "=<", 1, FALSE))}                      \* id =< 1

\* A dict lists each key once, and a nested dict lists the entries of one
\* table together.
Grouped(decls) ==
    \A i, j \in 1..Len(decls) :
        i < j /\ decls[i].table = decls[j].table =>
            \A k \in i..j : decls[k].table = decls[i].table
FkDictOrder(decls) ==
    /\ Grouped(decls)
    /\ \A i, j \in 1..Len(decls) :
           i < j => <<decls[i].table, decls[i].fk_col>> # <<decls[j].table, decls[j].fk_col>>

\* const_cfg from the rules listed: each table's rules in the order given.
RulesOf(rules, t) ==
    LET Mine(r) == r.table = t
        mine == SelectSeq(rules, Mine)
    IN [i \in 1..Len(mine) |-> mine[i].cond]

RECURSIVE TotalRows(_, _)
TotalRows(d, ts) ==
    IF ts = {} THEN 0
    ELSE LET t == CHOOSE x \in ts : TRUE
         IN Len(d[t]) + TotalRows(d, ts \ {t})

\* The datasets a call may be given: any subset of the tables, MaxRows rows in all.
UsersFrames == FramesOf("users")
OrdersFrames == FramesOf("orders")
UserActionsFrames == FramesOf("user_actions")
Dataset(present, u, o, a) ==
    [t \in present |-> CASE t = "users" -> u [] t = "orders" -> o [] OTHER -> a]
Datasets ==
    {Dataset(present, u, o, a) :
        present \in SUBSET Tables,
        u \in {f \in UsersFrames : Len(f) =< MaxRows},
        o \in {f \in OrdersFrames : Len(f) =< MaxRows},
        a \in {f \in UserActionsFrames : Len(f) =< MaxRows}}
BoundedDatasets == {d \in Datasets : TotalRows(d, DOMAIN d) =< MaxRows}

\* The configurations a validator may be constructed with: MaxDecls
\* declarations in all.
Config(fks, cks, rules) ==
    [fk_cfg |-> fks, ck_cfg |-> cks, const_cfg |-> [t \in Tables |-> RulesOf(rules, t)]]
FkConfigs == {fks \in SeqsUpTo(FkPool, MaxDecls) : FkDictOrder(fks)}
CkConfigs == {cks \in SeqsUpTo(CkPool, MaxDecls) : Grouped(cks)}
RuleLists == SeqsUpTo(RulePool, MaxDecls)
Configs ==
    {Config(c[1], c[2], c[3]) :
        c \in {x \in FkConfigs \X CkConfigs \X RuleLists :
                  Len(x[1]) + Len(x[2]) + Len(x[3]) =< MaxDecls}}

\* The state after DataValidator(val_cfg) is constructed with a configuration
\* of the set cfgs and a dataset is at hand.
Constructed(cfgs) ==
    /\ \E c \in cfgs :
          /\ fk_cfg = c.fk_cfg
          /\ ck_cfg = c.ck_cfg
          /\ const_cfg = c.const_cfg
    /\ df_dict \in BoundedDatasets
    /\ arg = df_dict
    /\ call = "none"
    /\ outcome = "none"
    /\ log = <<>>
    /\ ran = <<>>
    /\ AnomalyIdle
    /\ NamesIdle
    /\ SqliteIdle
    /\ KeyIdle

Init == Constructed(Configs)

\* Each validate_* method reads one namespace of the configuration only:
\* configurations that declare foreign keys only, composite keys only, and
\* constraint rules only.
ForeignKeyConfigs == {Config(fks, <<>>, <<>>) : fks \in FkConfigs}
CompositeKeyConfigs == {Config(<<>>, cks, <<>>) : cks \in CkConfigs}
ConstraintConfigs == {Config(<<>>, <<>>, rules) : rules \in RuleLists}

InitForeignKeys == Constructed(ForeignKeyConfigs)
InitCompositeKeys == Constructed(CompositeKeyConfigs)
InitConstraints == Constructed(ConstraintConfigs)

----------------------------------------------------------------------------
(* The calls *)

Outcome(raised) == IF raised THEN "raised" ELSE "returned"

\* Every method works on the mapping it is given and returns that same object
\* (lines 124, 136, 160, 199), so what it leaves in df_dict is what it returns.
ValidateForeignKeys ==
    LET r == validate_foreign_keys(df_dict)
    IN /\ df_dict' = r.d
       /\ arg' = df_dict
       /\ call' = "validate_foreign_keys"
       /\ outcome' = Outcome(r.raised)
       /\ log' = r.log
       /\ ran' = <<>>
       /\ UNCHANGED <<fk_cfg, ck_cfg, const_cfg>>
       /\ UNCHANGED <<AnomalyVars, NamesVars, SqliteVars, KeyVars>>

ValidateCompositeKeys ==
    LET r == validate_composite_keys(df_dict)
    IN /\ df_dict' = r.d
       /\ arg' = df_dict
       /\ call' = "validate_composite_keys"
       /\ outcome' = Outcome(r.raised)
       /\ log' = r.log
       /\ ran' = <<>>
       /\ UNCHANGED <<fk_cfg, ck_cfg, const_cfg>>
       /\ UNCHANGED <<AnomalyVars, NamesVars, SqliteVars, KeyVars>>

ValidateConstraints ==
    LET r == validate_constraints(df_dict)
    IN /\ df_dict' = r.d
       /\ arg' = df_dict
       /\ call' = "validate_constraints"
       /\ outcome' = Outcome(r.raised)
       /\ log' = r.log
       /\ ran' = <<>>
       /\ UNCHANGED <<fk_cfg, ck_cfg, const_cfg>>
       /\ UNCHANGED <<AnomalyVars, NamesVars, SqliteVars, KeyVars>>

RunAllValidations ==
    LET r == run_all_validations(df_dict)
    IN /\ df_dict' = r.d
       /\ arg' = df_dict
       /\ call' = "run_all_validations"
       /\ outcome' = Outcome(r.raised)
       /\ log' = r.log
       /\ ran' = r.ran
       /\ UNCHANGED <<fk_cfg, ck_cfg, const_cfg>>
       /\ UNCHANGED <<AnomalyVars, NamesVars, SqliteVars, KeyVars>>

Next ==
    \/ ValidateForeignKeys
    \/ ValidateCompositeKeys
    \/ ValidateConstraints
    \/ RunAllValidations

Spec == Init /\ [][Next]_vars

SpecForeignKeys == InitForeignKeys /\ [][Next]_vars
SpecCompositeKeys == InitCompositeKeys /\ [][Next]_vars
SpecConstraints == InitConstraints /\ [][Next]_vars

----------------------------------------------------------------------------
(* The generator and its inject_anomaly calls *)

\* No validator is at work.
ValidatorIdle ==
    /\ fk_cfg = <<>>
    /\ ck_cfg = <<>>
    /\ const_cfg = Config(<<>>, <<>>, <<>>).const_cfg
    /\ df_dict = Dataset({}, <<>>, <<>>, <<>>)
    /\ arg = df_dict
    /\ call = "none"
    /\ outcome = "none"
    /\ log = <<>>
    /\ ran = <<>>

\* The anomaly configurations a generator may be constructed with.
Probabilities == {Frac(0, 1), Frac(1, 2), Frac(1, 1)}
IntegerStrategies == {<<>>, <<None, Num(-999)>>}
TextStrategies == {<<Text("")>>}
StrategyTables ==
    {[t \in ts |-> IF t = "INTEGER" THEN i ELSE x] :
        ts \in SUBSET Dtypes, i \in IntegerStrategies, x \in TextStrategies}
AnomalyConfigs ==
    {AnomalyConfig(TRUE, p, st) : p \in Probabilities, st \in StrategyTables}
        \cup {AnomalyConfig(FALSE, DefaultProbability, st) : st \in StrategyTables}

\* The state after DataGenerator(gen_config) is constructed (lines 404-407).
InitAnomaly ==
    /\ ValidatorIdle
    /\ NamesIdle
    /\ SqliteIdle
    /\ KeyIdle
    /\ anomaly_cfg \in AnomalyConfigs
    /\ configured = anomaly_cfg
    /\ injected = NoInjection
    /\ calls = 0

\* A call inject_anomaly(value, dtype, column_name, nullable).
InjectAnomaly ==
    /\ calls < MaxCalls
    /\ \E value \in CleanValues, dtype \in Dtypes, column_name \in ColumnNames,
          nullable \in BOOLEAN, draw \in RandomDraws, n \in RandInts :
          /\ \E result \in Returns(anomaly_cfg, value, dtype, column_name, nullable, draw, n) :
                injected' = Injection(value, dtype, column_name, nullable, draw,
                                      result, Corrupts(anomaly_cfg, draw))
          /\ anomaly_cfg' = AfterInject(anomaly_cfg, dtype, column_name, draw, n)
    /\ calls' = calls + 1
    /\ UNCHANGED configured
    /\ UNCHANGED <<ValidatorVars, NamesVars, SqliteVars, KeyVars>>

NextAnomaly == InjectAnomaly

SpecAnomaly == InitAnomaly /\ [][NextAnomaly]_vars

----------------------------------------------------------------------------
(* The calls of _get_product_names *)

\* The word lists of a configuration: empty, one word, a repeated word, two
\* words, and words whose concatenations coincide ("Dark" + "Blue Lamp" and
\* "Dark Blue" + "Lamp").
ColorLists ==
    {<<>>, <<Word(<<"Red">>)>>, <<Word(<<"Red">>), Word(<<"Red">>)>>,
     <<Word(<<"Red">>), Word(<<"Green">>)>>,
     <<Word(<<"Dark">>), Word(<<"Dark", "Blue">>)>>}
ProductLists ==
    {<<>>, <<Word(<<"Lamp">>)>>, <<Word(<<"Blue", "Lamp">>), Word(<<"Lamp">>)>>}
ModelLists == {<<>>, <<Word(<<"X">>)>>, <<Word(<<"X">>), Word(<<"Y">>)>>}
WordListConfigs ==
    {WordLists(c, p, m) : c \in {x \in ColorLists : Len(x) =< MaxWords},
                          p \in {x \in ProductLists : Len(x) =< MaxWords},
                          m \in {x \in ModelLists : Len(x) =< MaxWords}}

\* The state when _get_product_names(num_rows) reaches its loop (lines 49-59):
\* the set is empty and the three lists are read from the configuration.
InitNames ==
    /\ ValidatorIdle
    /\ AnomalyIdle
    /\ SqliteIdle
    /\ KeyIdle
    /\ word_lists \in WordListConfigs
    /\ num_rows \in 0..(MaxWords * MaxWords * MaxWords)
    /\ product_names = {}
    /\ names_pc = "sampling"
    /\ names_error = ""
    /\ last_draw = NoDraw

\* Lines 60-62: one iteration of the loop with the positions i, j, k drawn.
DrawName(i, j, k) ==
    /\ names_pc = "sampling"
    /\ Cardinality(product_names) < num_rows
    /\ i \in Positions(word_lists.colors)
    /\ j \in Positions(word_lists.products)
    /\ k \in Positions(word_lists.models)
    /\ product_names' = product_names \cup {Candidate(word_lists, Draw(i, j, k))}
    /\ last_draw' = Draw(i, j, k)
    /\ UNCHANGED <<word_lists, num_rows, names_pc, names_error>>
    /\ UNCHANGED <<ValidatorVars, AnomalyVars, SqliteVars, KeyVars>>

\* Lines 60-61 when a list is empty: random.choice raises IndexError, which
\* nothing in _get_product_names catches.
DrawFails ==
    /\ names_pc = "sampling"
    /\ Cardinality(product_names) < num_rows
    /\ AnyListEmpty(word_lists)
    /\ names_pc' = "raised"
    /\ names_error' = "IndexError"
    /\ UNCHANGED <<word_lists, num_rows, product_names, last_draw>>
    /\ UNCHANGED <<ValidatorVars, AnomalyVars, SqliteVars, KeyVars>>

\* Lines 60 and 64-67: the loop test fails and the set is returned.
ReturnNames ==
    /\ names_pc = "sampling"
    /\ ~(Cardinality(product_names) < num_rows)
    /\ names_pc' = "returned"
    /\ UNCHANGED <<word_lists, num_rows, product_names, names_error, last_draw>>
    /\ UNCHANGED <<ValidatorVars, AnomalyVars, SqliteVars, KeyVars>>

NextNames ==
    \/ \E i, j, k \in 1..MaxWords : DrawName(i, j, k)
    \/ DrawFails
    \/ ReturnNames

SpecNames == InitNames /\ [][NextNames]_vars

\* Fair sampling: the loop keeps running, and a triple of positions that could
\* be drawn in every iteration is drawn in some iteration.
SpecNamesFair ==
    /\ SpecNames
    /\ WF_vars(DrawFails)
    /\ WF_vars(ReturnNames)
    /\ \A i, j, k \in 1..MaxWords : WF_vars(DrawName(i, j, k))

----------------------------------------------------------------------------
(* A run of generate_sqlite *)

\* The declarations of a configuration: distinct table names, in any order.
RECURSIVE DeclLists(_)
DeclLists(n) ==
    IF n = 0 THEN {<<>>}
    ELSE LET shorter == DeclLists(n - 1)
         IN shorter \cup
            {Append(l, TableDecl(name, rows)) :
                l \in {x \in shorter : Len(x) = n - 1},
                name \in TableNames, rows \in 0..MaxNumRows}
DistinctNames(decls) ==
    \A i, j \in 1..Len(decls) : i # j => decls[i].name # decls[j].name
SqliteConfigs == {l \in DeclLists(MaxTables) : DistinctNames(l)}

\* The state when generate_sqlite is about to connect to a new database file.
InitSqlite ==
    /\ ValidatorIdle
    /\ AnomalyIdle
    /\ NamesIdle
    /\ KeyIdle
    /\ sqlite_tables \in SqliteConfigs
    /\ module \in Modules
    /\ sql_pc = "connect"
    /\ sql_idx = 0
    /\ conn = "none"
    /\ connects = 0
    /\ created = {}
    /\ pending = NoRows
    /\ committed = NoRows
    /\ inserted = NoRows
    /\ rejected = {}
    /\ sql_error = ""
    /\ failed_in = ""

OtherVars == <<ValidatorVars, AnomalyVars, NamesVars, KeyVars>>

\* Where control goes when an exception leaves the try block: a sqlite3.Error
\* enters the except clause; any other exception passes it by, to the finally
\* clause of src/src/utils.py or out of src/data/data_generator.py.
Thrown(error) ==
    IF error = "sqlite3.Error" THEN "except"
    ELSE IF module = Utils THEN "finally" ELSE "raised"

\* sqlite3.connect(db_path) and conn.cursor().
Connect ==
    /\ sql_pc = "connect"
    /\ conn' = "open"
    /\ connects' = connects + 1
    /\ IF sqlite_tables = <<>>
       THEN sql_pc' = "commit" /\ sql_idx' = 0
       ELSE sql_pc' = "create" /\ sql_idx' = 1
    /\ UNCHANGED <<sqlite_tables, module, created, pending, committed, inserted,
                   rejected, sql_error, failed_in>>
    /\ UNCHANGED OtherVars

\* sqlite3.connect raises: conn is still None.
ConnectRejected ==
    /\ sql_pc = "connect"
    /\ sql_error' = "sqlite3.Error"
    /\ failed_in' = "connect"
    /\ sql_pc' = Thrown("sqlite3.Error")
    /\ UNCHANGED <<sqlite_tables, module, sql_idx, conn, connects, created, pending,
                   committed, inserted, rejected>>
    /\ UNCHANGED OtherVars

\* One iteration of the first loop: CREATE TABLE IF NOT EXISTS, which SQLite
\* runs outside any transaction.
CreateTable ==
    /\ sql_pc = "create"
    /\ created' = created \cup {sqlite_tables[sql_idx].name}
    /\ IF sql_idx < Len(sqlite_tables)
       THEN sql_pc' = "create" /\ sql_idx' = sql_idx + 1
       ELSE sql_pc' = "generate" /\ sql_idx' = 1
    /\ UNCHANGED <<sqlite_tables, module, conn, connects, pending, committed,
                   inserted, rejected, sql_error, failed_in>>
    /\ UNCHANGED OtherVars

\* The storage engine rejects the DDL of the table.
CreateRejected ==
    /\ sql_pc = "create"
    /\ rejected' = rejected \cup {sqlite_tables[sql_idx].name}
    /\ sql_error' = "sqlite3.Error"
    /\ failed_in' = "create"
    /\ sql_pc' = Thrown("sqlite3.Error")
    /\ UNCHANGED <<sqlite_tables, module, sql_idx, conn, connects, created, pending,
                   committed, inserted>>
    /\ UNCHANGED OtherVars

\* The generator of the table at sql_idx can run: its pools exist and, when
\* rows are requested, are not empty.
CanGenerate(decl) ==
    ~PoolMissing(decl.name) /\ (decl.num_rows > 0 => ~PoolEmpty(decl.name))

\* One iteration of the second loop for a table with rows: the rows are
\* generated and executemany inserts them in the open transaction.
PopulateTable ==
    /\ sql_pc = "generate"
    /\ LET decl == sqlite_tables[sql_idx]
       IN /\ CanGenerate(decl)
          /\ Generated(decl) > 0
          /\ pending' = [pending EXCEPT ![decl.name] = @ + Generated(decl)]
          /\ inserted' = [inserted EXCEPT ![decl.name] = @ + Generated(decl)]
    /\ IF sql_idx < Len(sqlite_tables)
       THEN sql_pc' = "generate" /\ sql_idx' = sql_idx + 1
       ELSE sql_pc' = "commit" /\ sql_idx' = sql_idx
    /\ UNCHANGED <<sqlite_tables, module, conn, connects, created, committed,
                   rejected, sql_error, failed_in>>
    /\ UNCHANGED OtherVars

\* One iteration of the second loop for a table without rows ("if not data:
\* continue"): num_rows is 0 or the table has no generator.
SkipTable ==
    /\ sql_pc = "generate"
    /\ LET decl == sqlite_tables[sql_idx]
       IN CanGenerate(decl) /\ Generated(decl) = 0
    /\ IF sql_idx < Len(sqlite_tables)
       THEN sql_pc' = "generate" /\ sql_idx' = sql_idx + 1
       ELSE sql_pc' = "commit" /\ sql_idx' = sql_idx
    /\ UNCHANGED <<sqlite_tables, module, conn, connects, created, pending,
                   committed, inserted, rejected, sql_error, failed_in>>
    /\ UNCHANGED OtherVars

\* The storage engine rejects the insert of the table's rows.
InsertRejected ==
    /\ sql_pc = "generate"
    /\ LET decl == sqlite_tables[sql_idx]
       IN /\ CanGenerate(decl)
          /\ Generated(decl) > 0
          /\ rejected' = rejected \cup {decl.name}
    /\ sql_error' = "sqlite3.Error"
    /\ failed_in' = "generate"
    /\ sql_pc' = Thrown("sqlite3.Error")
    /\ UNCHANGED <<sqlite_tables, module, sql_idx, conn, connects, created, pending,
                   committed, inserted>>
    /\ UNCHANGED OtherVars

\* SELECT id FROM <pool> fails: the pool's table was never created.
PoolQueryRejected ==
    /\ sql_pc = "generate"
    /\ PoolMissing(sqlite_tables[sql_idx].name)
    /\ sql_error' = "sqlite3.Error"
    /\ failed_in' = "generate"
    /\ sql_pc' = Thrown("sqlite3.Error")
    /\ UNCHANGED <<sqlite_tables, module, sql_idx, conn, connects, created, pending,
                   committed, inserted, rejected>>
    /\ UNCHANGED OtherVars

\* random.choice of an empty identifier pool: IndexError, not a sqlite3.Error.
GeneratorFails ==
    /\ sql_pc = "generate"
    /\ LET decl == sqlite_tables[sql_idx]
       IN ~PoolMissing(decl.name) /\ decl.num_rows > 0 /\ PoolEmpty(decl.name)
    /\ sql_error' = "IndexError"
    /\ failed_in' = "generate"
    /\ sql_pc' = Thrown("IndexError")
    /\ UNCHANGED <<sqlite_tables, module, sql_idx, conn, connects, created, pending,
                   committed, inserted, rejected>>
    /\ UNCHANGED OtherVars

\* conn.commit(): the one commit of the run, after the second loop.
Commit ==
    /\ sql_pc = "commit"
    /\ committed' = [t \in TableNames |-> committed[t] + pending[t]]
    /\ pending' = NoRows
    /\ sql_pc' = IF module = Utils THEN "finally" ELSE "returned"
    /\ UNCHANGED <<sqlite_tables, module, sql_idx, conn, connects, created, inserted,
                   rejected, sql_error, failed_in>>
    /\ UNCHANGED OtherVars

\* except sqlite3.Error: the error is logged; src/src/utils.py goes on to its
\* finally clause, src/data/data_generator.py raises the error again.
HandleError ==
    /\ sql_pc = "except"
    /\ IF module = Utils
       THEN sql_pc' = "finally" /\ sql_error' = ""
       ELSE sql_pc' = "raised" /\ sql_error' = sql_error
    /\ UNCHANGED <<sqlite_tables, module, sql_idx, conn, connects, created, pending,
                   committed, inserted, rejected, failed_in>>
    /\ UNCHANGED OtherVars

\* A finally clause that commits the open transaction before closing.
FinallyCommitting ==
    /\ sql_pc = "finally"
    /\ conn' = IF conn = "open" THEN "closed" ELSE conn
    /\ committed' = [t \in TableNames |-> committed[t] + pending[t]]
    /\ pending' = NoRows
    /\ sql_pc' = IF sql_error = "" THEN "returned" ELSE "raised"
    /\ UNCHANGED <<sqlite_tables, module, sql_idx, connects, created, inserted,
                   rejected, sql_error, failed_in>>
    /\ UNCHANGED OtherVars

\* finally: if conn: conn.close().  Closing discards the open transaction.
Finally ==
    /\ sql_pc = "finally"
    /\ conn' = IF conn = "open" THEN "closed" ELSE conn
    /\ pending' = NoRows
    /\ sql_pc' = IF sql_error = "" THEN "returned" ELSE "raised"
    /\ UNCHANGED <<sqlite_tables, module, sql_idx, connects, created, committed,
                   inserted, rejected, sql_error, failed_in>>
    /\ UNCHANGED OtherVars

NextSqlite ==
    \/ Connect
    \/ ConnectRejected
    \/ CreateTable
    \/ CreateRejected
    \/ PopulateTable
    \/ SkipTable
    \/ InsertRejected
    \/ PoolQueryRejected
    \/ GeneratorFails
    \/ Commit
    \/ HandleError
    \/ Finally

SpecSqlite == InitSqlite /\ [][NextSqlite]_vars

\* The runs of generate_sqlite of src/src/utils.py alone.
InitSqliteUtils == InitSqlite /\ module = Utils
SpecSqliteUtils == InitSqliteUtils /\ [][NextSqlite]_vars

----------------------------------------------------------------------------
(* A generation of transactions or user_actions rows *)

\* The identifier lists SELECT id FROM users can return, duplicates included.
IdPools == UNION {[1 .. n -> 1 .. MaxPool] : n \in 0 .. MaxPool}

InitKeys ==
    /\ ValidatorIdle
    /\ AnomalyIdle
    /\ NamesIdle
    /\ SqliteIdle
    /\ key_table \in KeyedTables
    /\ user_ids \in IdPools
    /\ rows_wanted \in 0 .. MaxWanted
    /\ field_words \in 0 .. 1
    /\ data = <<>>
    /\ unique = {}
    /\ now = 0
    /\ key_pc = "sampling"
    /\ key_error = ""
    /\ last_pair = NoPair

KeyFrame == UNCHANGED <<ValidatorVars, AnomalyVars, NamesVars, SqliteVars>>

\* One pass of the while loop that finds the pair in unique: the loop goes
\* round again.
RetryPair(i, d) ==
    /\ key_pc = "sampling"
    /\ Len(data) < rows_wanted
    /\ i \in 1 .. Len(user_ids)
    /\ Pair(i, d) \in unique
    /\ last_pair' = Pair(i, d)
    /\ UNCHANGED <<key_table, user_ids, rows_wanted, field_words, data, unique,
                   now, key_pc, key_error>>
    /\ KeyFrame

\* A pass that appends the row without testing unique.
AcceptPairUntested(i, d) ==
    /\ key_pc = "sampling"
    /\ Len(data) < rows_wanted
    /\ i \in 1 .. Len(user_ids)
    /\ field_words > 0
    /\ unique' = unique \cup {Pair(i, d)}
    /\ data' = Append(data, Row(Pair(i, d)))
    /\ last_pair' = Pair(i, d)
    /\ UNCHANGED <<key_table, user_ids, rows_wanted, field_words, now, key_pc,
                   key_error>>
    /\ KeyFrame

\* A pass that appends the row and leaves unique as it was.
AcceptPairForgotten(i, d) ==
    /\ key_pc = "sampling"
    /\ Len(data) < rows_wanted
    /\ i \in 1 .. Len(user_ids)
    /\ Pair(i, d) \notin unique
    /\ field_words > 0
    /\ data' = Append(data, Row(Pair(i, d)))
    /\ last_pair' = Pair(i, d)
    /\ UNCHANGED <<key_table, user_ids, rows_wanted, field_words, unique, now,
                   key_pc, key_error>>
    /\ KeyFrame

\* One pass that finds the pair absent: unique.add, break, the other fields
\* are drawn and the row is appended.
AcceptPair(i, d) ==
    /\ key_pc = "sampling"
    /\ Len(data) < rows_wanted
    /\ i \in 1 .. Len(user_ids)
    /\ Pair(i, d) \notin unique
    /\ field_words > 0
    /\ unique' = unique \cup {Pair(i, d)}
    /\ data' = Append(data, Row(Pair(i, d)))
    /\ last_pair' = Pair(i, d)
    /\ UNCHANGED <<key_table, user_ids, rows_wanted, field_words, now, key_pc,
                   key_error>>
    /\ KeyFrame

\* The pair is absent and added, then random.choice over the empty word list
\* raises IndexError before data.append.
FieldFails(i, d) ==
    /\ key_pc = "sampling"
    /\ Len(data) < rows_wanted
    /\ i \in 1 .. Len(user_ids)
    /\ Pair(i, d) \notin unique
    /\ field_words = 0
    /\ unique' = unique \cup {Pair(i, d)}
    /\ last_pair' = Pair(i, d)
    /\ key_pc' = "raised"
    /\ key_error' = "IndexError"
    /\ UNCHANGED <<key_table, user_ids, rows_wanted, field_words, data, now>>
    /\ KeyFrame

\* random.choice(user_ids) over an empty list raises IndexError.
PoolFails ==
    /\ key_pc = "sampling"
    /\ Len(data) < rows_wanted
    /\ user_ids = <<>>
    /\ key_pc' = "raised"
    /\ key_error' = "IndexError"
    /\ UNCHANGED <<key_table, user_ids, rows_wanted, field_words, data, unique,
                   now, last_pair>>
    /\ KeyFrame

\* range(num_rows) is exhausted: the match statement ends with data complete.
ReturnRows ==
    /\ key_pc = "sampling"
    /\ Len(data) >= rows_wanted
    /\ key_pc' = "returned"
    /\ UNCHANGED <<key_table, user_ids, rows_wanted, field_words, data, unique,
                   now, key_error, last_pair>>
    /\ KeyFrame

\* The wall clock reaches the next second while the loop runs.
Tick ==
    /\ key_pc = "sampling"
    /\ now < MaxClock
    /\ now' = now + 1
    /\ UNCHANGED <<key_table, user_ids, rows_wanted, field_words, data, unique,
                   key_pc, key_error, last_pair>>
    /\ KeyFrame

NextKeys ==
    \/ \E i \in 1 .. MaxPool, d \in Days : RetryPair(i, d)
    \/ \E i \in 1 .. MaxPool, d \in Days : AcceptPair(i, d)
    \/ \E i \in 1 .. MaxPool, d \in Days : FieldFails(i, d)
    \/ PoolFails
    \/ ReturnRows
    \/ Tick

SpecKeys == InitKeys /\ [][NextKeys]_vars

\* random.choice and random.randint are fair: a draw that stays possible is
\* made sooner or later; the interpreter keeps running the loop.
SpecKeysFair ==
    /\ SpecKeys
    /\ \A i \in 1 .. MaxPool, d \in Days : WF_vars(AcceptPair(i, d))
    /\ \A i \in 1 .. MaxPool, d \in Days : WF_vars(FieldFails(i, d))
    /\ WF_vars(PoolFails)
    /\ WF_vars(ReturnRows)

----------------------------------------------------------------------------
(* Properties of the validation engine *)

Returned(name) == call = name /\ outcome = "returned"

\* The values of column col in table t of dataset d.
ColumnValues(d, t, col) == {d[t][i][col] : i \in 1..Len(d[t])}

\* Both tables of a declaration are in dataset d.
BothPresent(decl, d) == decl.table \in DOMAIN d /\ decl.parent \in DOMAIN d

\* C1: after validate_foreign_keys returns, for every declared foreign key
\* whose child and parent tables are both in the dataset, every remaining child
\* row's FK value is in the parent table's key set of the returned dataset.
NoOrphansAfterForeignKeys ==
    Returned("validate_foreign_keys") =>
        \A i \in 1..Len(fk_cfg) :
            BothPresent(fk_cfg[i], df_dict) =>
                ColumnValues(df_dict, fk_cfg[i].table, fk_cfg[i].fk_col)
                    \subseteq ColumnValues(df_dict, fk_cfg[i].parent, "id")

\* C2: run_all_validations is idempotent: a run on the dataset a run returned
\* returns it row for row.
RunAllIdempotent ==
    [][(Returned("run_all_validations") /\ call' = "run_all_validations"
            /\ outcome' = "returned") => df_dict' = df_dict]_vars

\* A condition that matches none of the shapes and that query cannot evaluate.
Unevaluable(table, cond) ==
    cond.shape = "query" /\ ~(cond.ok /\ cond.col \in Columns(table))

\* const_cfg without its unevaluable conditions.
EvaluableRules(cfg) ==
    [t \in DOMAIN cfg |->
        LET Evaluable(c) == ~Unevaluable(t, c) IN SelectSeq(cfg[t], Evaluable)]

\* The warnings due for the unevaluable conditions of the tables order[i..]
\* that dataset d holds.
RECURSIVE UnparsedWarnings(_, _, _, _)
UnparsedWarnings(cfg, order, i, d) ==
    IF i > Len(order) THEN <<>>
    ELSE LET t == order[i]
             Bad(c) == Unevaluable(t, c)
             bad == IF t \in DOMAIN d THEN SelectSeq(cfg[t], Bad) ELSE <<>>
         IN [k \in 1..Len(bad) |-> Warn("unparsed", t, <<bad[k].col, bad[k].op>>)]
                \o UnparsedWarnings(cfg, order, i + 1, d)

\* C3: a condition of no recognised shape that the fallback cannot evaluate
\* leaves its table's rows as they are and is logged as a warning, and
\* validate_constraints carries on with the other rules and tables: the call
\* ends as it would without that condition, plus one warning for each.
UnparsedConditionFailsOpen ==
    call = "validate_constraints" =>
        LET r == ConstraintLoop(EvaluableRules(const_cfg), TableOrder, 1, arg, <<>>)
        IN /\ df_dict = r.d
           /\ outcome = Outcome(r.raised)
           /\ outcome = "returned" =>
                  log = UnparsedWarnings(const_cfg, TableOrder, 1, arg)

\* C3 witness: an unevaluable condition came first in a table's rules, a later
\* rule of that table removed rows, and the call returned with the warning.
UnparsedThenFiltered ==
    /\ Returned("validate_constraints")
    /\ \E t \in DOMAIN arg :
          /\ Len(const_cfg[t]) > 1
          /\ Unevaluable(t, const_cfg[t][1])
          /\ Len(df_dict[t]) < Len(arg[t])
    /\ Len(log) = 1

\* C4: a rule of a recognised shape that fails while it is evaluated is
\* skipped: no exception leaves validate_constraints, nor the constraint phase
\* of run_all_validations.
FailingRuleIsolated ==
    (call = "validate_constraints" \/ (call = "run_all_validations" /\ Len(ran) = 3))
        => outcome = "returned"

\* Some two rows of df agree on all the columns keys.
HasDuplicate(df, keys) ==
    \E i, j \in 1..Len(df) : i # j /\ \A k \in 1..Len(keys) : df[i][keys[k]] = df[j][keys[k]]

\* C5: validate_composite_keys logs exactly one warning for each declared
\* (table, key set) whose table is present and holds a duplicated combination,
\* in declaration order, and nothing else, however many rows are duplicated.
OneWarningPerViolatedKey ==
    Returned("validate_composite_keys") =>
        LET Violated(decl) ==
                decl.table \in DOMAIN arg /\ HasDuplicate(arg[decl.table], decl.keys)
            v == SelectSeq(ck_cfg, Violated)
        IN log = [k \in 1..Len(v) |-> Warn("duplicates", v[k].table, v[k].keys)]

\* C5 witness: a table held the same combination three times, another declared
\* key set of the call had no duplicate, and one warning was logged.
TripleDuplicateOneWarning ==
    /\ Returned("validate_composite_keys")
    /\ Len(ck_cfg) = 2
    /\ \E i \in 1..Len(ck_cfg) :
          /\ ck_cfg[i].table \in DOMAIN arg
          /\ Len(arg[ck_cfg[i].table]) = 3
          /\ \A m, n \in 1..3 : SameKey(arg[ck_cfg[i].table][m], arg[ck_cfg[i].table][n], ck_cfg[i].keys)
    /\ Len(log) = 1

\* C6: validate_composite_keys leaves every table of the dataset as it was,
\* rows and order, whether it found duplicates, returned or raised.
CompositeKeysReadOnly ==
    call = "validate_composite_keys" => df_dict = arg

\* C6 witness: the call found duplicates and returned.
DuplicatesReported ==
    /\ Returned("validate_composite_keys")
    /\ \E i \in 1..Len(log) : log[i].event = "duplicates"

\* The table and column a target of the form parent_table.parent_column names.
IsDocumentedTarget(target) == target = "users.id"
TargetTable(target) == CASE target = "users.id" -> "users"
TargetColumn(target) == CASE target = "users.id" -> "id"

\* C7: a foreign key declared as child_column: "parent_table.parent_column" is
\* enforced: with both tables present, no child row is left whose FK value is
\* not among the values of parent_column in parent_table.
DocumentedTargetEnforced ==
    Returned("validate_foreign_keys") =>
        \A i \in 1..Len(fk_cfg) :
            LET decl == fk_cfg[i] IN
            (/\ IsDocumentedTarget(decl.parent)
             /\ decl.table \in DOMAIN df_dict
             /\ TargetTable(decl.parent) \in DOMAIN df_dict) =>
                ColumnValues(df_dict, decl.table, decl.fk_col)
                    \subseteq ColumnValues(df_dict, TargetTable(decl.parent), TargetColumn(decl.parent))

\* C8: run_all_validations does not change the mapping it is given: after the
\* call, returned or raised, the caller's mapping holds the original rows.
InputNotMutated ==
    call = "run_all_validations" => df_dict = arg

Last(l) == l[Len(l)]
AllPhases == <<"foreign_keys", "composite_keys", "constraints">>

\* C9: an exception in a phase of run_all_validations is logged as an error
\* and leaves the call, no later phase is entered; the call returns only when
\* no phase raised, and then logs no error.
PhaseExceptionReraised ==
    call = "run_all_validations" =>
        LET f == validate_foreign_keys(arg)
            c == validate_composite_keys(f.d)
            k == validate_constraints(c.d)
            failed == outcome = "raised" /\ Len(log) > 0 /\ Last(log).level = "error"
        IN /\ f.raised => failed /\ ran = SubSeq(AllPhases, 1, 1)
           /\ (~f.raised /\ c.raised) => failed /\ ran = SubSeq(AllPhases, 1, 2)
           /\ (~f.raised /\ ~c.raised /\ k.raised) => failed /\ ran = AllPhases
           /\ (~f.raised /\ ~c.raised /\ ~k.raised) =>
                  /\ outcome = "returned"
                  /\ ran = AllPhases
                  /\ \A i \in 1..Len(log) : log[i].level # "error"

\* C9 witness: the composite-key phase raised after the foreign-key phase had
\* removed rows; the constraint phase was not entered.
CompositeKeyPhaseRaised ==
    /\ call = "run_all_validations"
    /\ outcome = "raised"
    /\ ran = <<"foreign_keys", "composite_keys">>
    /\ df_dict # arg

\* C10: a declaration whose child or parent table is absent is skipped with
\* one warning and no exception: the call ends with the rows and the outcome
\* it has with only the other declarations, and when it returns it has logged
\* one warning for each such declaration, in order.
AbsentTableSkipped ==
    call = "validate_foreign_keys" =>
        LET Present(decl) == BothPresent(decl, arg)
            Absent(decl) == ~BothPresent(decl, arg)
            skipped == SelectSeq(fk_cfg, Absent)
            r == FkLoop(SelectSeq(fk_cfg, Present), 1, arg, <<>>)
        IN /\ df_dict = r.d
           /\ outcome = Outcome(r.raised)
           /\ outcome = "returned" =>
                  log = [k \in 1..Len(skipped) |->
                            Warn("fk_skipped", skipped[k].table,
                                 <<skipped[k].fk_col, skipped[k].parent>>)]

\* C10 witness: the first declaration was skipped for an absent table and the
\* second one removed rows.
SkippedThenEnforced ==
    /\ Returned("validate_foreign_keys")
    /\ Len(fk_cfg) = 2
    /\ ~BothPresent(fk_cfg[1], arg)
    /\ BothPresent(fk_cfg[2], arg)
    /\ df_dict # arg
    /\ Len(log) = 1

\* The rule cond of table evaluates to true on row: filtering the row alone
\* keeps it.
RowPasses(table, cond, row) ==
    LET f == filter_df(<<row>>, table, cond) IN ~f.raised /\ f.df = <<row>>

\* The rows of frame df that pass every rule in rules.
PassingRows(table, rules, df) ==
    LET Keep(r) == \A k \in 1..Len(rules) : RowPasses(table, rules[k], r)
    IN SelectSeq(df, Keep)

----------------------------------------------------------------------------
(* Properties of inject_anomaly *)

\* The elements of a list.
Elements(list) == {list[i] : i \in 1..Len(list)}

\* The strategy list the generator was constructed with for dtype.
ConfiguredStrategies(dtype) == Strategies(configured, dtype)

\* C12: with configured probability 0, inject_anomaly returns the value it
\* was given, whatever the value, dtype, column name, nullable flag and draw
\* of [0, 1), a draw of exactly 0 included.
ProbabilityZeroKeepsValue ==
    (calls > 0 /\ configured.has_probability /\ configured.probability = Frac(0, 1))
        => injected.result = injected.value

\* C13: with configured probability 1 and a non-empty configured strategy list
\* for dtype, inject_anomaly returns an element of that configured list, for
\* every dtype and column name and after any number of earlier calls.
ProbabilityOneDrawsConfigured ==
    (/\ calls > 0
     /\ configured.has_probability /\ configured.probability = Frac(1, 1)
     /\ ConfiguredStrategies(injected.dtype) # <<>>)
        => injected.result \in Elements(ConfiguredStrategies(injected.dtype))

\* C14: when inject_anomaly goes on to corrupt and no strategies are
\* configured for dtype, it returns None if nullable and the value it was
\* given otherwise, for every dtype and column name.
NoStrategiesNoFabrication ==
    (calls > 0 /\ injected.corrupt /\ ConfiguredStrategies(injected.dtype) = <<>>)
        => injected.result = IF injected.nullable THEN None ELSE injected.value

\* C15: after any sequence of inject_anomaly calls the anomaly configuration
\* held by the generator equals the one it was constructed with.
AnomalyConfigUnchanged == anomaly_cfg = configured

----------------------------------------------------------------------------
(* Properties of _get_product_names *)

\* The number of component triples: the cardinality of the cross product.
CrossProduct(lists) == Len(lists.colors) * Len(lists.products) * Len(lists.models)

\* C16: for non-empty component lists and n not above the cardinality of
\* their cross product, the generator terminates and returns a set of exactly
\* n distinct names, repeated words and coinciding concatenations included.
NamesTerminateWithExactlyN ==
    (~AnyListEmpty(word_lists) /\ num_rows =< CrossProduct(word_lists))
        => <>(names_pc = "returned" /\ Cardinality(product_names) = num_rows)

\* C17: with an empty component list the generator fails with
\* ConfigurationError before the loop is entered: it never returns, never
\* fails with another error, and draws no candidate.
EmptyListIsConfigurationError ==
    (AnyListEmpty(word_lists) /\ names_pc # "sampling")
        => (names_pc = "raised" /\ names_error = "ConfigurationError"
            /\ last_draw = NoDraw)

----------------------------------------------------------------------------
(* Properties of generate_sqlite *)

\* The run has ended: generate_sqlite returned or an exception left it.
RunEnded == sql_pc \in {"returned", "raised"}

\* The table declared at position i can be given rows whatever happens to the
\* tables in the set failed: it has a generator, rows are requested, and each
\* pool it reads is declared before it, with rows, and is not in failed.
Producible(i, failed) ==
    LET decl == sqlite_tables[i]
    IN /\ decl.name \in GeneratedTables
       /\ decl.num_rows > 0
       /\ decl.name \notin failed
       /\ \A pool \in Pools(decl.name) :
             /\ pool \notin failed
             /\ \E j \in 1..(i - 1) :
                   sqlite_tables[j].name = pool /\ sqlite_tables[j].num_rows > 0

\* C18: when the storage engine rejects the DDL or the insert of one table,
\* every later table that does not depend on it is still created and
\* populated in the same run.
FailureIsolated ==
    (RunEnded /\ rejected # {}) =>
        \A i \in (sql_idx + 1)..Len(sqlite_tables) :
            Producible(i, rejected) =>
                /\ sqlite_tables[i].name \in created
                /\ committed[sqlite_tables[i].name] = sqlite_tables[i].num_rows

\* C19: the transaction is committed once per table insert batch: if the run
\* fails while it processes table k, the rows inserted for tables 1..k-1 are
\* committed and remain in storage after the run ends.
EarlierTablesCommitted ==
    (RunEnded /\ failed_in = "generate") =>
        \A i \in 1..(sql_idx - 1) :
            committed[sqlite_tables[i].name] = inserted[sqlite_tables[i].name]

\* C20: the connection is opened once per run and is closed on every exit
\* path: in no state where the run has ended is the connection still open.
ConnectionClosedAtExit == RunEnded => (conn # "open" /\ connects =< 1)

\* The declaration the run is at.
CurrentDecl == sqlite_tables[sql_idx]

\* Some declaration names the table and asks for rows.
DeclaredWithRows(table) ==
    \E i \in 1..Len(sqlite_tables) :
        sqlite_tables[i].name = table /\ sqlite_tables[i].num_rows > 0

\* C21: tables are generated in dependency order, whatever the order of the
\* declarations: when the generator of a table with rows to make is about to
\* run, every table whose ids it reads, and that is declared with rows, has
\* been populated.
ParentsPopulatedFirst ==
    (sql_pc = "generate" /\ CurrentDecl.num_rows > 0) =>
        \A pool \in Pools(CurrentDecl.name) :
            DeclaredWithRows(pool) => inserted[pool] > 0

\* The run ended because the generator of the table at sql_idx found an
\* identifier pool empty.
EmptyPoolFailure ==
    /\ RunEnded
    /\ failed_in = "generate"
    /\ rejected = {}
    /\ CurrentDecl.num_rows > 0
    /\ \E pool \in Pools(CurrentDecl.name) : pool \in created /\ inserted[pool] = 0
    /\ \A pool \in Pools(CurrentDecl.name) : pool \in created

\* C22: a child generator that finds a parent identifier pool empty fails
\* with MissingDependencyError, and the failure stays with that table and its
\* dependants: the later tables that do not depend on it are still populated.
EmptyPoolConfined ==
    EmptyPoolFailure =>
        /\ sql_error = "MissingDependencyError"
        /\ \A i \in (sql_idx + 1)..Len(sqlite_tables) :
              Producible(i, {CurrentDecl.name}) =>
                  committed[sqlite_tables[i].name] = sqlite_tables[i].num_rows

\* Some declaration names a table that has no generator.
UnknownTableDeclared ==
    \E i \in 1..Len(sqlite_tables) : sqlite_tables[i].name \notin GeneratedTables

\* C23: a declaration whose name has no generator is never skipped with an
\* empty row list while the run goes on to its end and reports success.
UnknownTableNeverSkipped ==
    ~(/\ UnknownTableDeclared
      /\ sql_pc = "returned"
      /\ failed_in = ""
      /\ sql_error = "")

----------------------------------------------------------------------------
(* Properties of the validation engine: order and narrowing *)

\* The events of the warnings a phase logs.
PhaseOf(event) ==
    CASE event = "fk_skipped" -> 1
      [] event = "duplicates" -> 2
      [] event = "unparsed" -> 3
      [] OTHER -> 4

\* C24: run_all_validations runs foreign-key enforcement, then the
\* composite-key check, then constraint filtering: what the composite-key
\* check reports is what holds of the tables as foreign-key enforcement left
\* them, the constraint rules filter that same content, and the records of
\* the three phases are logged in that order.
PhasesInFixedOrder ==
    Returned("run_all_validations") =>
        LET f == validate_foreign_keys(arg)
            IsDup(rec) == rec.event = "duplicates"
            Violated(decl) ==
                decl.table \in DOMAIN f.d /\ HasDuplicate(f.d[decl.table], decl.keys)
            violated == SelectSeq(ck_cfg, Violated)
        IN /\ ran = AllPhases
           /\ SelectSeq(log, IsDup) =
                  [k \in 1..Len(violated) |->
                      Warn("duplicates", violated[k].table, violated[k].keys)]
           /\ df_dict = validate_constraints(f.d).d
           /\ \A i, j \in 1..Len(log) :
                  i < j => PhaseOf(log[i].event) =< PhaseOf(log[j].event)

\* C24 witness: the composite-key check reported a duplicate that the
\* constraint rules then removed: the returned table has no duplicate left.
DuplicateReportedThenFiltered ==
    /\ Returned("run_all_validations")
    /\ \E k \in 1..Len(ck_cfg) :
          /\ ck_cfg[k].table \in DOMAIN df_dict
          /\ \E i \in 1..Len(log) :
                log[i] = Warn("duplicates", ck_cfg[k].table, ck_cfg[k].keys)
          /\ ~HasDuplicate(df_dict[ck_cfg[k].table], ck_cfg[k].keys)

\* The content after the first k declarations of decls have been enforced on
\* d: declaration k keeps, of the rows its table has after declaration k - 1,
\* those whose value is among the ids its parent has after declaration k - 1.
RECURSIVE Narrowed(_, _, _)
Narrowed(decls, k, d) ==
    IF k = 0 THEN d
    ELSE LET prev == Narrowed(decls, k - 1, d)
             decl == decls[k]
             Keep(r) == r[decl.fk_col] \in ColumnValues(prev, decl.parent, "id")
         IN IF BothPresent(decl, prev)
            THEN [prev EXCEPT ![decl.table] = SelectSeq(prev[decl.table], Keep)]
            ELSE prev

\* C25: validate_foreign_keys enforces the declarations in declaration order,
\* pass k filtering the rows pass k - 1 left, against the parent's content at
\* the moment of the pass (a parent already narrowed, the table itself
\* included, counts as narrowed).
CumulativeNarrowing ==
    Returned("validate_foreign_keys") => df_dict = Narrowed(fk_cfg, Len(fk_cfg), arg)

\* C25 witness: two declarations of one child table, the second with the
\* child itself as parent; a row passed the first, and failed the second only
\* because the first pass had removed the row it references.
SelfReferenceAfterNarrowing ==
    /\ Returned("validate_foreign_keys")
    /\ Len(fk_cfg) = 2
    /\ fk_cfg[1].table = fk_cfg[2].table
    /\ fk_cfg[2].parent = fk_cfg[2].table
    /\ BothPresent(fk_cfg[1], arg)
    /\ LET t == fk_cfg[1].table
           first == Narrowed(fk_cfg, 1, arg)
       IN \E i \in 1..Len(first[t]) :
             /\ first[t][i][fk_cfg[2].fk_col] \in ColumnValues(arg, t, "id")
             /\ first[t][i][fk_cfg[2].fk_col] \notin ColumnValues(first, t, "id")
             /\ Len(df_dict[t]) < Len(first[t])

----------------------------------------------------------------------------
(* Properties of the (user_id, timestamp) loop *)

PairsOf(rows) == {PairOf(rows[k]) : k \in 1 .. Len(rows)}

PairwiseDistinct(rows) ==
    \A j, k \in 1 .. Len(rows) : j # k => PairOf(rows[j]) # PairOf(rows[k])

\* C26: at every test of the generation loop and in the list the generation
\* returns, the (user_id, timestamp) pairs of the rows are pairwise distinct
\* and unique is exactly the set of the pairs of the rows appended so far.
UniqueTracksRows ==
    key_pc \in {"sampling", "returned"} =>
        /\ PairwiseDistinct(data)
        /\ unique = PairsOf(data)

\* A pass has just drawn a pair that is already in unique, with two rows
\* appended: the pair was rejected.
PairRejectedAfterTwoRows ==
    /\ key_pc = "sampling"
    /\ Len(data) >= 2
    /\ last_pair \in unique
    /\ last_pair # PairOf(data[Len(data)])

\* The number of distinct pairs the loop can draw at one reading of the clock.
Drawable == Cardinality({user_ids[i] : i \in 1 .. Len(user_ids)}) * (MaxDays + 1)

Feasible == user_ids # <<>> /\ rows_wanted <= Drawable

Exceeded == user_ids # <<>> /\ rows_wanted > Drawable

KeyLoopEnded == key_pc \in {"returned", "raised"}

\* A step of the loop: a retry leaves data and unique as they were; an
\* accepting pass adds exactly the absent pair it drew to unique, and the row
\* with that pair is appended unless drawing its fields raised.
PassAcceptsOrRetries ==
    \/ unique' = unique /\ data' = data
    \/ /\ last_pair' \notin unique
       /\ unique' = unique \cup {last_pair'}
       /\ Cardinality(unique') = Cardinality(unique) + 1
       /\ \/ data' = Append(data, Row(last_pair'))
          \/ data' = data /\ key_pc' = "raised"

\* C30: under fair sampling the loop ends whenever the identifier pool is not
\* empty and the requested count does not exceed the number of pairs drawable
\* at one reading of the clock; every pass either accepts one new pair,
\* growing unique by exactly one, or retries leaving data and unique unchanged;
\* when the requested count exceeds that number, the loop does not return
\* before the clock has advanced.
KeyLoopTerminates ==
    /\ Feasible ~> KeyLoopEnded
    /\ [][PassAcceptsOrRetries]_vars
    /\ [](Exceeded /\ key_pc = "returned" => now > 0)

\* The generation returned all its rows although more rows were requested
\* than pairs are drawable at one reading of the clock.
ReturnedBeyondDrawable ==
    /\ Exceeded
    /\ key_pc = "returned"
    /\ Len(data) = rows_wanted

\* C30, as stated: when the requested count exceeds the number of drawable
\* pairs, the loop never returns.
ExceededNeverReturns == Exceeded => key_pc # "returned"

----------------------------------------------------------------------------
(* Properties of the validation engine: the returned dataset *)

\* C27: after run_all_validations returns, for every declared foreign key
\* with both tables in the returned dataset, every child row's FK value is in
\* the parent's id column of the returned dataset, also when the parent lost
\* rows to a later foreign-key pass or to a constraint rule.
NoOrphansAfterRunAll ==
    Returned("run_all_validations") =>
        \A i \in 1..Len(fk_cfg) :
            BothPresent(fk_cfg[i], df_dict) =>
                \A r \in 1..Len(df_dict[fk_cfg[i].table]) :
                    \E q \in 1..Len(df_dict[fk_cfg[i].parent]) :
                        df_dict[fk_cfg[i].parent][q]["id"]
                            = df_dict[fk_cfg[i].table][r][fk_cfg[i].fk_col]

\* s can be obtained from t by deleting elements: same elements, same order.
RECURSIVE IsSubSeq(_, _)
IsSubSeq(s, t) ==
    IF s = <<>> THEN TRUE
    ELSE IF t = <<>> THEN FALSE
    ELSE IF Head(s) = Head(t) THEN IsSubSeq(Tail(s), Tail(t))
    ELSE IsSubSeq(s, Tail(t))

ValidationMethods ==
    {"validate_foreign_keys", "validate_composite_keys", "validate_constraints"}

----------------------------------------------------------------------------
(* Properties of generate_sqlite: the commit *)

\* C29: rows are committed all at once or not at all: nothing is committed
\* before the second loop has passed the last declared table without a
\* failure, and when the run has ended either every row inserted during the
\* run is committed (no step failed) or none is (a generator or an insert
\* failed at some table).
PopulationAllOrNothing ==
    /\ committed # NoRows =>
        /\ failed_in = ""
        /\ sql_idx = Len(sqlite_tables)
        /\ sql_pc \in {"finally", "returned"}
    /\ RunEnded =>
        IF failed_in = "" THEN committed = inserted ELSE committed = NoRows

\* The run ended after a failure at a later table, and the rows inserted for
\* an earlier table were discarded.
InsertedRowsDiscarded ==
    /\ RunEnded
    /\ failed_in = "generate"
    /\ inserted # NoRows
    /\ committed = NoRows

====
